---- MODULE Spec2Model ----
(***************************************************************************)
(* TravelAgent_LLM: the Streamlit trip-planning wizard (src/main.py), the  *)
(* orchestrator Tripcrew and the response formatters format_data           *)
(* (src/agents.py).                                                        *)
(*                                                                         *)
(* Python values are tagged records [t |-> tag, v |-> payload].  A Python  *)
(* str is a sequence of tokens: the characters the regular expressions and *)
(* the JSON grammar distinguish are tokens of their own, every other run   *)
(* of characters is one word token.                                        *)
(***************************************************************************)
EXTENDS Integers, Sequences, FiniteSets, TLC

VARIABLES
    ss,         \* st.session_state: the wizard's keys step, preferences, ...
    picks,      \* the radios pick_<idx> of stage 1 that show "Yes"
    calls,      \* external calls issued by the most recent script run
    exception,  \* exception that ended the most recent script run, or "none"
    written,    \* artifact keys assigned since the last reset
    nBacks,     \* presses of a Back button since the last reset
    event,      \* the button or widget the most recent script run handled
    kickoff,    \* what crew.kickoff() did in that run, or "none"
    fn,         \* function under test
    arg,        \* its argument
    res,        \* its outcome
    prev,       \* the outcome of the first call, once a second one was made
    crew,       \* self.inputs of the Tripcrew under test, None before __init__
    weather     \* what get_current_weather returned in its run, place by place

wizardVars == <<ss, picks, calls, exception, written, nBacks, event, kickoff>>
harnessVars == <<fn, arg, res, prev, crew, weather>>
vars == <<wizardVars, harnessVars>>

----------------------------------------------------------------------------
(* Python values *)

None == [t |-> "none", v |-> <<>>]
Str(s) == [t |-> "str", v |-> s]
Num(n) == [t |-> "num", v |-> n]
Bool(b) == [t |-> "bool", v |-> b]
List(s) == [t |-> "list", v |-> s]
Dict(f) == [t |-> "dict", v |-> f]
Tuple(a, b) == [t |-> "tuple", v |-> <<Num(a), Num(b)>>]
EmptyDict == Dict(<<>>)
EmptyList == List(<<>>)

\* A local name: Body applied to a value that is computed once.
Bind(value, Body(_)) == Body(value)

MinOf(S) == CHOOSE x \in S : \A y \in S : x <= y
MaxOf(S) == CHOOSE x \in S : \A y \in S : y <= x

\* A one-word string, the usual shape of a key or a name.
W(word) == Str(<<word>>)

\* bool(x)
Truthy(x) ==
    CASE x.t = "none" -> FALSE
      [] x.t = "str" -> x.v # <<>>
      [] x.t = "num" -> x.v # 0
      [] x.t = "bool" -> x.v
      [] x.t = "list" -> x.v # <<>>
      [] x.t = "dict" -> DOMAIN x.v # {}
      [] x.t = "tuple" -> x.v # <<>>
      [] OTHER -> TRUE

\* a or b
PyOr(a, b) == IF Truthy(a) THEN a ELSE b

\* d.get(key, default) on a dict d; key is a word.
Get(d, key, default) == IF <<key>> \in DOMAIN d.v THEN d.v[<<key>>] ELSE default

\* d[key] = value
DictSet(d, key, value) ==
    Dict([x \in (DOMAIN d.v) \cup {<<key>>} |-> IF x = <<key>> THEN value ELSE d.v[x]])

\* x in xs, for a list xs
In(x, xs) == \E i \in 1..Len(xs.v) : xs.v[i] = x

\* xs.remove(x): without the first occurrence of x
Remove(xs, x) ==
    LET i == MinOf({k \in 1..Len(xs.v) : xs.v[k] = x})
    IN  List(SubSeq(xs.v, 1, i - 1) \o SubSeq(xs.v, i + 1, Len(xs.v)))

\* str(x), for the values a place name can take
PyStr(x) ==
    CASE x.t = "str" -> x
      [] x.t = "none" -> W("None")
      [] x.t = "num" -> W(CASE x.v = 0 -> "0" [] x.v = 1 -> "1" [] x.v = 2 -> "2" [] OTHER -> "number")
      [] x.t = "bool" -> W(IF x.v THEN "True" ELSE "False")
      [] OTHER -> W("repr")

\* The outcome of a call: a returned value or a raised exception.
Ok(x) == [exc |-> "none", val |-> x]
Raise(e) == [exc |-> e, val |-> None]

----------------------------------------------------------------------------
(* json.loads on token sequences *)

IsWs(tok) == tok = " "

RECURSIVE SkipWs(_, _)
SkipWs(s, i) == IF i <= Len(s) /\ IsWs(s[i]) THEN SkipWs(s, i + 1) ELSE i

Literals == {"null", "true", "false", "0", "1", "2"}

LiteralValue(tok) ==
    CASE tok = "null" -> None
      [] tok = "true" -> Bool(TRUE)
      [] tok = "false" -> Bool(FALSE)
      [] tok = "0" -> Num(0)
      [] tok = "1" -> Num(1)
      [] tok = "2" -> Num(2)

\* The nesting depth at which the decoder stops with RecursionError: the
\* interpreter's recursion limit (about a thousand frames), scaled down.
RecursionLimit == 4

ParseFail == [ok |-> FALSE, exc |-> "JSONDecodeError", val |-> None, next |-> 0]
TooDeep == [ok |-> FALSE, exc |-> "RecursionError", val |-> None, next |-> 0]
Parsed(x, n) == [ok |-> TRUE, exc |-> "none", val |-> x, next |-> n]

\* A string literal opening at s[i] = '"': up to the next '"'.
ParseString(s, i) ==
    LET close == {j \in (i + 1)..Len(s) : s[j] = "\""}
    IN  IF close = {} THEN ParseFail
        ELSE LET j == CHOOSE c \in close : \A d \in close : c <= d
             IN  Parsed(Str(SubSeq(s, i + 1, j - 1)), j + 1)

RECURSIVE ParseValue(_, _, _), ParseElements(_, _, _, _), ParseMembers(_, _, _, _)

\* The value opening at s[i], met d containers deep.
ParseValue(s, i, d) ==
    IF i > Len(s) THEN ParseFail
    ELSE IF s[i] \in {"{", "["} /\ d >= RecursionLimit THEN TooDeep
    ELSE CASE s[i] = "{" ->
                LET j == SkipWs(s, i + 1)
                IN  IF j <= Len(s) /\ s[j] = "}" THEN Parsed(EmptyDict, j + 1)
                    ELSE ParseMembers(s, j, <<>>, d + 1)
           [] s[i] = "[" ->
                LET j == SkipWs(s, i + 1)
                IN  IF j <= Len(s) /\ s[j] = "]" THEN Parsed(EmptyList, j + 1)
                    ELSE ParseElements(s, j, <<>>, d + 1)
           [] s[i] = "\"" -> ParseString(s, i)
           [] s[i] \in Literals -> Parsed(LiteralValue(s[i]), i + 1)
           [] OTHER -> ParseFail

ParseElements(s, i, acc, d) ==
    Bind(ParseValue(s, i, d), LAMBDA r :
        IF ~r.ok THEN r
        ELSE Bind(SkipWs(s, r.next), LAMBDA j :
            IF j > Len(s) THEN ParseFail
            ELSE IF s[j] = "," THEN ParseElements(s, SkipWs(s, j + 1), Append(acc, r.val), d)
            ELSE IF s[j] = "]" THEN Parsed(List(Append(acc, r.val)), j + 1)
            ELSE ParseFail))

ParseMembers(s, i, acc, d) ==
    IF i > Len(s) \/ s[i] # "\"" THEN ParseFail
    ELSE Bind(ParseString(s, i), LAMBDA k :
        IF ~k.ok THEN ParseFail
        ELSE Bind(SkipWs(s, k.next), LAMBDA c :
            IF c > Len(s) \/ s[c] # ":" THEN ParseFail
            ELSE Bind(ParseValue(s, SkipWs(s, c + 1), d), LAMBDA r :
                IF ~r.ok THEN r
                ELSE Bind([x \in (DOMAIN acc) \cup {k.val.v} |->
                              IF x = k.val.v THEN r.val ELSE acc[x]], LAMBDA acc2 :
                     Bind(SkipWs(s, r.next), LAMBDA j :
                        IF j > Len(s) THEN ParseFail
                        ELSE IF s[j] = "," THEN ParseMembers(s, SkipWs(s, j + 1), acc2, d)
                        ELSE IF s[j] = "}" THEN Parsed(Dict(acc2), j + 1)
                        ELSE ParseFail)))))

\* json.loads(x): TypeError unless x is a str, RecursionError when the
\* containers nest deeper than the decoder can follow, JSONDecodeError unless
\* the whole text is one JSON value.
Loads(x) ==
    IF x.t # "str" THEN Raise("TypeError")
    ELSE Bind(ParseValue(x.v, SkipWs(x.v, 1), 0), LAMBDA r :
            IF r.ok /\ SkipWs(x.v, r.next) > Len(x.v) THEN Ok(r.val)
            ELSE IF r.exc = "RecursionError" THEN Raise("RecursionError")
            ELSE Raise("JSONDecodeError"))

----------------------------------------------------------------------------
(* The two regular expressions of the extractor *)

\* Token names: "FENCE" is a run of three backticks, "FENCEjson" the same
\* followed by the label json, "FENCEJSON" by the label in upper case.
\* The closing fence of the labeled pattern also matches the first three
\* characters of a following opener.
IsFenceStart(tok) == tok \in {"FENCE", "FENCEjson", "FENCEJSON"}

\* The opening fence with its label; ic is re.IGNORECASE.
IsOpener(tok, ic) == tok = "FENCEjson" \/ (ic /\ tok = "FENCEJSON")

Closer(tok) == IF tok = "{" THEN "}" ELSE "]"

\* The labeled pattern matched at token i: the opening fence, optional
\* whitespace, group 1 (an opening brace or bracket, lazily up to a closer of
\* its kind), optional whitespace, a closing fence.  The span of group 1, or
\* <<>>.
LabeledAt(s, i, ic) ==
    IF ~IsOpener(s[i], ic) THEN <<>>
    ELSE Bind(SkipWs(s, i + 1), LAMBDA j :
            IF j > Len(s) \/ s[j] \notin {"{", "["} THEN <<>>
            ELSE Bind({k \in (j + 1)..Len(s) :
                         /\ s[k] = Closer(s[j])
                         /\ SkipWs(s, k + 1) <= Len(s)
                         /\ IsFenceStart(s[SkipWs(s, k + 1)])}, LAMBDA ends :
                    IF ends = {} THEN <<>> ELSE <<j, MinOf(ends)>>))

\* re.search of the labeled pattern: group 1 of the leftmost match, or <<>>.
LabeledSearch(s, ic) ==
    Bind({i \in 1..Len(s) : LabeledAt(s, i, ic) # <<>>}, LAMBDA starts :
        IF starts = {} THEN <<>>
        ELSE Bind(LabeledAt(s, MinOf(starts), ic), LAMBDA span :
                SubSeq(s, span[1], span[2])))

\* re.search of the bare pattern: from the first opening brace or bracket
\* that has a closer of its kind after it, greedily to the last such closer;
\* or <<>>.
BareSearch(s) ==
    LET closers(i) == {k \in (i + 1)..Len(s) : s[k] = Closer(s[i])}
        starts == {i \in 1..Len(s) : s[i] \in {"{", "["} /\ closers(i) # {}}
    IN  IF starts = {} THEN <<>>
        ELSE LET i == MinOf(starts)
             IN  SubSeq(s, i, MaxOf(closers(i)))

\* format_data._extract_json_in_backticks
ExtractJsonInBackticks(text) ==
    IF text.t # "str" THEN None
    ELSE Bind(LabeledSearch(text.v, TRUE), LAMBDA m :
            IF m # <<>> THEN Str(m)
            ELSE Bind(BareSearch(text.v), LAMBDA alt :
                    IF alt # <<>> THEN Str(alt) ELSE None))

----------------------------------------------------------------------------
(* format_data: the response formatters *)

\* d.get(key, default) where the receiver may be anything: AttributeError
\* unless it is a dict.
HasGet(x) == x.t = "dict"

\* Word tokens for the two non-ASCII or multi-word default texts.
Dash == W("EMDASH")
NoReason == Str(<<"No", " ", "reason", " ", "provided.">>)
InvalidJson == Str(<<"Invalid", " ", "JSON", " ", "format", " ", "received",
                     " ", "from", " ", "the", " ", "model.">>)

\* The dict format_city_suggestions appends for one item.
\* A faulty element formatter: it keeps every key of the item.
FormatPlaceKeeping(item) ==
    Dict(item.v
         @@ <<"place">> :> W("Unknown")
         @@ <<"reason">> :> NoReason
         @@ <<"weather_suitability">> :> Dash
         @@ <<"travel_cost_estimate">> :> EmptyDict
         @@ <<"accommodation_range">> :> Dash
         @@ <<"safety_rating">> :> Dash
         @@ <<"accessibility">> :> Dash
         @@ <<"permit_required">> :> Dash
         @@ <<"photos">> :> EmptyList)

FormatPlace(item) ==
    Dict(   <<"place">> :> Get(item, "place", W("Unknown"))
         @@ <<"reason">> :> Get(item, "reason", NoReason)
         @@ <<"weather_suitability">> :> Get(item, "weather_suitability", Dash)
         @@ <<"travel_cost_estimate">> :> Get(item, "travel_cost_estimate", EmptyDict)
         @@ <<"accommodation_range">> :> Get(item, "accommodation_range", Dash)
         @@ <<"safety_rating">> :> Get(item, "safety_rating", Dash)
         @@ <<"accessibility">> :> Get(item, "accessibility", Dash)
         @@ <<"permit_required">> :> Get(item, "permit_required", Dash)
         @@ <<"photos">> :> Get(item, "photos", EmptyList))

\* The loop "for item in places: formatted.append({... item.get(...) ...})".
\* A list yields its elements, a dict its keys and a str its characters (both
\* str, without .get); None, numbers and booleans are not iterable.
FormatPlacesLoop(places) ==
    CASE places.t = "list" ->
            IF \E i \in 1..Len(places.v) : ~HasGet(places.v[i])
            THEN Raise("AttributeError")
            ELSE Ok(List([i \in 1..Len(places.v) |-> FormatPlace(places.v[i])]))
      [] places.t = "dict" ->
            IF DOMAIN places.v = {} THEN Ok(EmptyList) ELSE Raise("AttributeError")
      [] places.t = "str" ->
            IF places.v = <<>> THEN Ok(EmptyList) ELSE Raise("AttributeError")
      [] OTHER -> Raise("TypeError")

FormatCitySuggestions(places_data) ==
    Bind(IF places_data.t = "list" THEN Ok(places_data)
         ELSE Loads(PyOr(ExtractJsonInBackticks(places_data), places_data)),
         LAMBDA parsed :
            IF parsed.exc # "none" THEN Ok(EmptyList)
            ELSE FormatPlacesLoop(parsed.val))

ListOrEmpty(x) == IF x.t = "list" THEN x ELSE EmptyList

FormatLocalExpertise(local_output) ==
    Bind(PyOr(ExtractJsonInBackticks(local_output), local_output), LAMBDA raw :
    Bind(IF raw.t = "str" THEN Loads(raw) ELSE Ok(PyOr(raw, EmptyDict)), LAMBDA data :
        IF data.exc # "none" THEN Ok(EmptyDict)
        ELSE IF ~HasGet(data.val) THEN Raise("AttributeError")
        ELSE Ok(Dict(   <<"top_attractions">> :>
                            ListOrEmpty(Get(data.val, "top_attractions", EmptyList))
                     @@ <<"local_cuisine">> :>
                            ListOrEmpty(Get(data.val, "local_cuisine", EmptyList))))))

FormatTripSchedule(schedule_json) ==
    IF schedule_json.t = "dict" THEN Ok(schedule_json)
    ELSE Bind(Loads(PyOr(ExtractJsonInBackticks(schedule_json),
                         PyOr(schedule_json, Str(<<>>)))), LAMBDA r :
            IF r.exc = "none" THEN r
            ELSE Ok(Dict(<<"error">> :> InvalidJson)))

FormatSafetyInfo(raw) ==
    Bind(Loads(PyOr(ExtractJsonInBackticks(raw), raw)), LAMBDA r :
        IF r.exc = "none" THEN r ELSE Ok(EmptyDict))

FormatPackingList(raw) ==
    Bind(Loads(PyOr(ExtractJsonInBackticks(raw), raw)), LAMBDA r :
        IF r.exc = "none" THEN r ELSE Ok(EmptyDict))

FormatBudgetBreakdown(raw) ==
    Bind(Loads(PyOr(ExtractJsonInBackticks(raw), raw)), LAMBDA r :
        IF r.exc = "none" THEN r ELSE Ok(EmptyDict))

FormatTransportOptions(raw) ==
    Bind(Loads(PyOr(ExtractJsonInBackticks(raw), raw)), LAMBDA r :
        IF r.exc = "none" THEN r ELSE Ok(EmptyDict))

FormatAccommodationSuggestions(raw) ==
    Bind(Loads(PyOr(ExtractJsonInBackticks(raw), raw)), LAMBDA r :
        IF r.exc = "none" THEN r ELSE Ok(EmptyDict))

FormatReviews(raw) ==
    Bind(Loads(PyOr(ExtractJsonInBackticks(raw), raw)), LAMBDA r :
        IF r.exc = "none" THEN r ELSE Ok(EmptyDict))

Formatters == {"format_city_suggestions", "format_local_expertise",
               "format_trip_schedule", "format_safety_info",
               "format_packing_list", "format_budget_breakdown",
               "format_transport_options", "format_accommodation_suggestions",
               "format_reviews"}

ApplyFormatter(name, x) ==
    CASE name = "format_city_suggestions" -> FormatCitySuggestions(x)
      [] name = "format_local_expertise" -> FormatLocalExpertise(x)
      [] name = "format_trip_schedule" -> FormatTripSchedule(x)
      [] name = "format_safety_info" -> FormatSafetyInfo(x)
      [] name = "format_packing_list" -> FormatPackingList(x)
      [] name = "format_budget_breakdown" -> FormatBudgetBreakdown(x)
      [] name = "format_transport_options" -> FormatTransportOptions(x)
      [] name = "format_accommodation_suggestions" -> FormatAccommodationSuggestions(x)
      [] name = "format_reviews" -> FormatReviews(x)

\* The keys of each response schema, as the task prompts document them.
DocumentedKeys(name) ==
    CASE name = "format_city_suggestions" ->
            {"place", "reason", "weather_suitability", "travel_cost_estimate",
             "accommodation_range", "safety_rating", "accessibility",
             "permit_required", "photos"}
      [] name = "format_local_expertise" -> {"top_attractions", "local_cuisine"}
      [] name = "format_trip_schedule" -> {"itinerary"}
      [] name = "format_safety_info" ->
            {"overall_risk_level", "common_scams", "neighborhood_safety",
             "local_laws_and_norms", "health", "emergency_contacts",
             "solo_travel_tips"}
      [] name = "format_packing_list" ->
            {"season", "essentials", "clothing", "footwear", "toiletries_health",
             "gadgets", "documents_money", "optional_activity_specific"}
      [] name = "format_budget_breakdown" ->
            {"budget_range", "per_day_estimate_per_person", "notes"}
      [] name = "format_transport_options" -> {"intercity", "in_city"}
      [] name = "format_accommodation_suggestions" -> {"stays", "neighborhoods"}
      [] name = "format_reviews" -> {"attractions", "restaurants"}

----------------------------------------------------------------------------
(* JSON text, token by token, as json.dumps lays it out *)

Q == "\""
Lit(word) == <<Q, word, Q>>
Member(key, valueText) == Lit(key) \o <<":", " ">> \o valueText

RECURSIVE JoinComma(_)
JoinComma(parts) ==
    IF parts = <<>> THEN <<>>
    ELSE IF Len(parts) = 1 THEN parts[1]
    ELSE parts[1] \o <<",", " ">> \o JoinComma(Tail(parts))

Obj(members) == <<"{">> \o JoinComma(members) \o <<"}">>
Arr(elements) == <<"[">> \o JoinComma(elements) \o <<"]">>

\* A reply that wraps the JSON in a labeled fence, after a line of prose.
Fenced(body) == <<"Sure!", " ", "FENCEjson", " ">> \o body \o <<" ", "FENCE">>

\* What the run_* methods return when the crew result carries no task output.
NoOutput == Str(<<"No", " ", "output">>)

----------------------------------------------------------------------------
(* The formatters applied to a bounded set of arguments *)

Pending == [exc |-> "pending", val |-> None]

HampiList == Arr(<<Obj(<<Member("place", Lit("Hampi"))>>)>>)

LocalGood == Obj(<<Member("top_attractions", Arr(<<Obj(<<Member("name", Lit("Fort"))>>)>>)),
                   Member("local_cuisine", Arr(<<Obj(<<Member("dish", Lit("Dosa"))>>)>>))>>)

\* {}, [], None and a text with no JSON in it.
DegenerateInputs == {EmptyDict, EmptyList, None, NoOutput}

\* n brackets, one inside the other.
RECURSIVE Nested(_)
Nested(n) == IF n = 0 THEN <<>> ELSE <<"[">> \o Nested(n - 1) \o <<"]">>

\* Texts nested one level deeper than the decoder follows.
DeepInputs == { Str(Nested(RecursionLimit + 1)), Str(Fenced(Nested(RecursionLimit + 1))) }

FormatterInputs ==
    DegenerateInputs \cup DeepInputs \cup
    { Str(<<>>),
      Str(HampiList),
      Str(Fenced(HampiList)),
      Str(Obj(<<Member("place", Lit("Goa"))>>)),
      Str(Arr(<<Lit("Goa"), <<"1">>>>)),
      Str(LocalGood),
      Str(Obj(<<Member("top_attractions", Lit("Fort")), Member("local_cuisine", <<"null">>)>>)),
      Str(<<"null">>),
      Str(<<"FENCEjson", " ", "{", "oops", "}", " ", "FENCE">>),
      List(<<Dict(<<"place">> :> W("Hampi"))>>),
      List(<<W("Goa")>>),
      List(<<Dict(<<"place">> :> W("Hampi")), W("Goa")>>),
      Dict(<<"itinerary">> :> EmptyList) }

----------------------------------------------------------------------------
(* main._parse_json_blocks *)

\* A faulty extractor: it takes text only, and has none for a list or a dict.
ParseJsonBlocksTextOnly(text) ==
    IF text.t # "str" THEN Ok(None)
    ELSE Bind(BareSearch(text.v), LAMBDA m2 :
         Bind(IF m2 # <<>> THEN Loads(Str(m2)) ELSE Raise("JSONDecodeError"), LAMBDA second :
            IF second.exc = "none" THEN Ok(second.val) ELSE Ok(None)))

\* The two handlers are "except json.JSONDecodeError": any other exception
\* of json.loads leaves the function.
ParseJsonBlocks(text) ==
    IF text.t \in {"list", "dict"} THEN Ok(text)
    ELSE IF text.t # "str" THEN Ok(None)
    ELSE Bind(LabeledSearch(text.v, FALSE), LAMBDA m :
         Bind(IF m # <<>> THEN Loads(Str(m)) ELSE Raise("JSONDecodeError"), LAMBDA first :
            IF first.exc = "none" THEN Ok(first.val)
            ELSE IF first.exc # "JSONDecodeError" THEN Raise(first.exc)
            ELSE Bind(BareSearch(text.v), LAMBDA m2 :
                 Bind(IF m2 # <<>> THEN Loads(Str(m2)) ELSE Raise("JSONDecodeError"), LAMBDA second :
                    IF second.exc = "none" THEN Ok(second.val)
                    ELSE IF second.exc # "JSONDecodeError" THEN Raise(second.exc)
                    ELSE Ok(None)))))

----------------------------------------------------------------------------
(* Tripcrew: the orchestrator *)

\* The longest list of places a reply holds, and the presses of Back in one session.
MaxPlaces == 2
MaxBacks == 2

\* The largest power of two that is at most n, for n >= 1.
RECURSIVE Pow2Floor(_)
Pow2Floor(n) == IF n < 2 THEN 1 ELSE 2 * Pow2Floor(n \div 2)

\* p * total is a product of doubles.  The double nearest to 0.35 lies below
\* 0.35 by 0.4 * 2^-54, so where 35 total / 100 is an integer N the product
\* lies below N by 0.4 total * 2^-54; it rounds to the double below N, and
\* int() then gives N - 1, when that gap exceeds half the spacing of the
\* doubles below N, that is when total > 5 * 2^e for 2^e <= N < 2^(e+1).
\* For the other percentages of the program (5, 10, 15, 20, 25, 30, 45, 50)
\* and totals from 0 to the form's maximum the product truncates to the
\* exact floor.
RoundsBelow(total, pct) ==
    /\ pct = 35
    /\ total > 0
    /\ (35 * total) % 100 = 0
    /\ total > 5 * Pow2Floor((35 * total) \div 100)

\* int(p * total) for the percentage pct = 100 p and total >= 0
IntPct(total, pct) ==
    IF RoundsBelow(total, pct) THEN ((total * pct) \div 100) - 1
    ELSE (total * pct) \div 100

\* A faulty constructor: it splits the total whatever ranges it is given.
TripcrewInitAlwaysSplit(inputs) ==
    LET total == Get(inputs, "total_budget", None)
    IN  IF Truthy(total)
        THEN DictSet(inputs, "budget_range",
                     Dict(   <<"transport">> :> Tuple(IntPct(total.v, 25), IntPct(total.v, 35))
                          @@ <<"accommodation">> :> Tuple(IntPct(total.v, 35), IntPct(total.v, 45))
                          @@ <<"food">> :> Tuple(IntPct(total.v, 15), IntPct(total.v, 25))
                          @@ <<"entertainment">> :> Tuple(IntPct(total.v, 5), IntPct(total.v, 15))))
        ELSE inputs

\* Tripcrew.__init__: the inputs as the constructor leaves them.
TripcrewInit(inputs) ==
    LET ranges == Get(inputs, "budget_range", None)
        missing == \/ ~Truthy(ranges)
                   \/ \A k \in DOMAIN ranges.v : ranges.v[k] = None
        total == Get(inputs, "total_budget", None)
    IN  IF missing /\ Truthy(total)
        THEN DictSet(inputs, "budget_range",
                     Dict(   <<"transport">> :> Tuple(IntPct(total.v, 25), IntPct(total.v, 35))
                          @@ <<"accommodation">> :> Tuple(IntPct(total.v, 35), IntPct(total.v, 45))
                          @@ <<"food">> :> Tuple(IntPct(total.v, 15), IntPct(total.v, 25))
                          @@ <<"entertainment">> :> Tuple(IntPct(total.v, 5), IntPct(total.v, 15))))
        ELSE inputs

\* Calendar days by their ISO text, counted from an arbitrary origin.
DayNumber ==
    "2026-10-31" :> 30 @@ "2026-11-01" :> 31 @@ "2026-11-03" :> 33 @@ "2026-11-04" :> 34
    @@ "2026-11-05" :> 35 @@ "2026-11-11" :> 41

\* datetime.strptime(x, "%Y-%m-%d").date()
Strptime(x) ==
    IF x.t = "str" /\ Len(x.v) = 1 /\ x.v[1] \in DOMAIN DayNumber
    THEN Ok(DayNumber[x.v[1]])
    ELSE Raise(IF x.t = "str" THEN "ValueError" ELSE "TypeError")

\* datetime.utcnow().date()
Today == DayNumber["2026-11-01"]

\* A faulty gate: it takes the form's label "Holiday based" for the style.
ShouldShowWeatherByLabel(inputs) ==
    LET start_date == Strptime(Get(inputs, "start_date", None))
    IN  /\ start_date.exc = "none"
        /\ Get(inputs, "planning_style", None)
               \in {W("holiday_based"), Str(<<"Holiday", " ", "based">>)}
        /\ 0 <= start_date.val - Today
        /\ start_date.val - Today <= 3

\* A faulty gate: it looks at the date only.
ShouldShowWeatherAnyStyle(inputs) ==
    LET start_date == Strptime(Get(inputs, "start_date", None))
    IN  /\ start_date.exc = "none"
        /\ 0 <= start_date.val - Today
        /\ start_date.val - Today <= 3

\* Tripcrew.should_show_weather
ShouldShowWeather(inputs) ==
    LET start_date_str == Get(inputs, "start_date", None)
        planning_style == Get(inputs, "planning_style", None)
    IN  IF ~Truthy(start_date_str) \/ ~Truthy(planning_style) THEN FALSE
        ELSE LET start_date == Strptime(start_date_str)
             IN  IF start_date.exc # "none" THEN FALSE
                 ELSE LET days_until_trip == start_date.val - Today
                      IN  /\ planning_style = W("holiday_based")
                          /\ 0 <= days_until_trip
                          /\ days_until_trip <= 3

\* What crew.kickoff() can do: raise, or return a result whose tasks_output
\* is missing, empty, or holds the raw reply.
CrewResults(replies) ==
    {[kind |-> k, raw |-> None] : k \in {"raises", "no_attr", "empty"}}
    \cup {[kind |-> "raw", raw |-> r] : r \in replies}

\* run, run_local_expert, run_schedule_trip: "No output" unless there is a reply.
TaskOutputLenient(result) == IF result.kind = "raw" THEN result.raw ELSE NoOutput

\* The six later run_* methods index tasks_output[0] whenever the attribute exists.
TaskOutputStrict(result) ==
    CASE result.kind = "raw" -> Ok(result.raw)
      [] result.kind = "no_attr" -> Ok(NoOutput)
      [] OTHER -> Raise("IndexError")

\* Tripcrew.get_current_weather returns a snapshot or None.
WeatherSnapshot ==
    Dict(   <<"temperature">> :> Num(1) @@ <<"description">> :> W("clear")
         @@ <<"humidity">> :> Num(2) @@ <<"wind_speed">> :> Num(1))
WeatherOutcomes == {None, WeatherSnapshot}

\* What the lookups of one run return, place by place; none is made unless
\* should_show_weather holds.
Lookups(inputs) ==
    IF ShouldShowWeather(inputs) THEN [1..MaxPlaces -> WeatherOutcomes]
    ELSE {[i \in 1..MaxPlaces |-> None]}

\* The weather loop of Tripcrew.run over the formatted places; wx[i] is what
\* the lookup for place i returns.
AttachWeather(formatted, wx) ==
    List([i \in 1..Len(formatted.v) |->
            IF Truthy(Get(formatted.v[i], "place", None))
            THEN DictSet(formatted.v[i], "weather",
                         IF Truthy(wx[i]) THEN wx[i] ELSE EmptyDict)
            ELSE formatted.v[i]])

WeatherCalls(formatted) ==
    LET named == SelectSeq(formatted.v, LAMBDA place : Truthy(Get(place, "place", None)))
    IN  [i \in 1..Len(named) |-> "get_current_weather"]

\* A faulty run: it looks the weather up whatever the gate says.
RunUngated(inputs, result, wx) ==
    IF result.kind = "raises"
    THEN [exc |-> "BackendError", val |-> None, calls |-> <<"run">>]
    ELSE Bind(FormatCitySuggestions(TaskOutputLenient(result)), LAMBDA formatted :
            IF formatted.exc # "none"
            THEN [exc |-> formatted.exc, val |-> None, calls |-> <<"run">>]
            ELSE [exc |-> "none", val |-> AttachWeather(formatted.val, wx),
                  calls |-> <<"run">> \o WeatherCalls(formatted.val)])

\* Tripcrew.run: [exc, val, calls]
Run(inputs, result, wx) ==
    IF result.kind = "raises"
    THEN [exc |-> "BackendError", val |-> None, calls |-> <<"run">>]
    ELSE Bind(FormatCitySuggestions(TaskOutputLenient(result)), LAMBDA formatted :
            IF formatted.exc # "none"
            THEN [exc |-> formatted.exc, val |-> None, calls |-> <<"run">>]
            ELSE IF ShouldShowWeather(inputs)
            THEN [exc |-> "none", val |-> AttachWeather(formatted.val, wx),
                  calls |-> <<"run">> \o WeatherCalls(formatted.val)]
            ELSE [exc |-> "none", val |-> formatted.val, calls |-> <<"run">>])

Returned(x, name) == [exc |-> "none", val |-> x, calls |-> <<name>>]
Raised(e, made) == [exc |-> e, val |-> None, calls |-> made]

\* Tripcrew.run_local_expert
RunLocalExpert(result) ==
    IF result.kind = "raises" THEN Raised("BackendError", <<"run_local_expert">>)
    ELSE Returned(TaskOutputLenient(result), "run_local_expert")

\* ", ".join(xs) raises unless every element is a str.
Joinable(xs) == \A i \in 1..Len(xs.v) : xs.v[i].t = "str"

\* Tripcrew.run_schedule_trip; the task text is built before the crew runs.
RunScheduleTrip(selected_attractions, selected_cuisines, result) ==
    IF ~Joinable(selected_attractions) \/ ~Joinable(selected_cuisines)
    THEN Raised("TypeError", <<>>)
    ELSE IF result.kind = "raises" THEN Raised("BackendError", <<"run_schedule_trip">>)
    ELSE Returned(TaskOutputLenient(result), "run_schedule_trip")

\* A faulty stage method: it runs the crew again after the first reply.
RunStageRetrying(name, result) ==
    IF result.kind = "raises" THEN Raised("BackendError", <<name>>)
    ELSE Bind(TaskOutputStrict(result), LAMBDA raw :
            IF raw.exc = "none" THEN [exc |-> "none", val |-> raw.val, calls |-> <<name, name>>]
            ELSE Raised(raw.exc, <<name>>))

\* run_safety_info, run_packing_list, run_budget_breakdown,
\* run_transport_options, run_accommodation_suggestions,
\* run_reviews_and_ratings
RunStage(name, result) ==
    IF result.kind = "raises" THEN Raised("BackendError", <<name>>)
    ELSE Bind(TaskOutputStrict(result), LAMBDA raw :
            IF raw.exc = "none" THEN Returned(raw.val, name) ELSE Raised(raw.exc, <<name>>))

----------------------------------------------------------------------------
(* The replies the generation backend gives in this model *)

PlaceObj(name) == Obj(<<Member("place", Lit(name)), Member("reason", Lit("hills"))>>)

CityReplies ==
    { Str(Arr(<<PlaceObj("Hampi"), PlaceObj("Goa")>>)),
      Str(Fenced(Arr(<<PlaceObj("Hampi"), PlaceObj("Goa")>>))),
      Str(Arr(<<PlaceObj("Goa"), Obj(<<Member("place", <<"null">>)>>)>>)),
      Str(Obj(<<Member("place", Lit("Goa"))>>)) }

LocalReplies ==
    { Str(Obj(<<Member("top_attractions",
                       Arr(<<Obj(<<Member("name", Lit("Fort"))>>)>>)),
                Member("local_cuisine",
                       Arr(<<Obj(<<Member("dish", Lit("Dosa"))>>)>>))>>)),
      Str(Obj(<<Member("top_attractions", Arr(<<>>)),
                Member("local_cuisine", Arr(<<>>))>>)),
      Str(Arr(<<>>)) }

ScheduleReplies ==
    { Str(Fenced(Obj(<<Member("itinerary",
                              Arr(<<Obj(<<Member("day", <<"1">>),
                                          Member("steps", Arr(<<>>))>>)>>))>>))) }

\* One well-formed reply for each of the six later stages.
StageReply(key) == Str(Obj(<<Member(key, Arr(<<>>))>>))

----------------------------------------------------------------------------
(* The wizard: src/main.py *)

\* _init_state: the defaults
Defaults ==
    [ step |-> 0, preferences |-> None, suggestions |-> EmptyList,
      suggestions_raw |-> None, selected_place |-> None, local_info |-> None,
      selected_attractions |-> EmptyList, selected_cuisines |-> EmptyList,
      itinerary |-> None, safety |-> None, packing |-> None, budget |-> None,
      transport |-> None, accommodation |-> None, reviews |-> None,
      final_export |-> None ]

\* The preferences the stage-0 form builds, for one choice of its widgets.
FormPrefs(total, date, style) ==
    Dict(   <<"travel_type">> :> W("Leisure")
         @@ <<"total_budget">> :> Num(total)
         @@ <<"budget_range">> :>
                Dict(   <<"transport">> :> Tuple(IntPct(total, 10), IntPct(total, 20))
                     @@ <<"accommodation">> :> Tuple(IntPct(total, 30), IntPct(total, 50))
                     @@ <<"food">> :> Tuple(IntPct(total, 10), IntPct(total, 20))
                     @@ <<"entertainment">> :> Tuple(IntPct(total, 5), IntPct(total, 15)))
         @@ <<"no_of_people">> :> Num(2)
         @@ <<"group_type">> :> W("couple")
         @@ <<"duration">> :> Num(7)
         @@ <<"interests">> :> W("mountains")
         @@ <<"start_date">> :> W(date)
         @@ <<"planning_style">> :> style)

\* The options of the "Planning Style" selectbox.
PlanningStyles ==
    { Str(<<"Not", " ", "specified">>), Str(<<"Holiday", " ", "based">>),
      Str(<<"Season", " ", "based">>) }

FormInputs ==
    { FormPrefs(60000, "2026-11-03", Str(<<"Holiday", " ", "based">>)),
      FormPrefs(1000, "2026-11-11", Str(<<"Season", " ", "based">>)) }

\* main(): stage 2 without a destination is sent back to stage 1.
Land(k, place) == IF k = 2 /\ ~Truthy(place) THEN 1 ELSE k

\* step0_preferences: by_place.get(place, {}) over the parsed items
ByPlaceRef(parsed, place) ==
    LET key(item) == PyStr(PyOr(Get(item, "place", None),
                                PyOr(Get(item, "city", None), Get(item, "destination", None))))
        hits == {i \in 1..Len(parsed.v) :
                    HasGet(parsed.v[i]) /\ place.t = "str" /\ key(parsed.v[i]) = place}
    IN  IF hits = {} THEN EmptyDict ELSE parsed.v[MaxOf(hits)]

\* step0_preferences: the dict "combined" for one formatted suggestion
Over(d, ref, k) == DictSet(d, k, Get(ref, k, None))

Combined(sug, ref) ==
    DictSet(Over(Over(Over(Over(Over(Over(sug, ref, "weather_suitability"),
                                          ref, "travel_cost_estimate"),
                                     ref, "accommodation_range"),
                                ref, "safety_rating"),
                           ref, "accessibility"),
                      ref, "permit_required"),
            "photos", PyOr(Get(ref, "photos", None), Get(sug, "photos", None)))

\* step0_preferences, lines 170-197: from the value run() returned to the
\* enriched list.  A place that is a list or a dict cannot be looked up.
Enrich(output) ==
    Bind(PyOr(FormatCitySuggestions(output).val, EmptyList), LAMBDA sug :
    Bind(ParseJsonBlocks(output), LAMBDA blocks :
    Bind(PyOr(blocks.val, EmptyList), LAMBDA parsed0 :
    Bind(IF parsed0.t = "dict" THEN List(<<parsed0>>) ELSE parsed0, LAMBDA parsed :
        IF blocks.exc # "none" THEN Raise(blocks.exc)
        ELSE IF \E i \in 1..Len(sug.v) : Get(sug.v[i], "place", None).t \in {"list", "dict"}
        THEN Raise("TypeError")
        ELSE Ok(List([i \in 1..Len(sug.v) |->
                        Combined(sug.v[i],
                                 ByPlaceRef(parsed, Get(sug.v[i], "place", None)))]))))))

\* A faulty export: the record leaves the reviews out.
FinalPayloadWithoutReviews(s) ==
    Dict(<<"tripPlan">> :>
        Dict(   <<"preferences">> :> s.preferences
             @@ <<"selected_place">> :> s.selected_place
             @@ <<"suggestions">> :> s.suggestions
             @@ <<"local_info">> :> s.local_info
             @@ <<"selected_attractions">> :> s.selected_attractions
             @@ <<"selected_cuisines">> :> s.selected_cuisines
             @@ <<"itinerary">> :> s.itinerary
             @@ <<"safety">> :> s.safety
             @@ <<"packing">> :> s.packing
             @@ <<"budget">> :> s.budget
             @@ <<"transport">> :> s.transport
             @@ <<"accommodation">> :> s.accommodation
             @@ <<"reviews">> :> None))

\* step10_final: final_payload
FinalPayload(s) ==
    Dict(<<"tripPlan">> :>
        Dict(   <<"preferences">> :> s.preferences
             @@ <<"selected_place">> :> s.selected_place
             @@ <<"suggestions">> :> s.suggestions
             @@ <<"local_info">> :> s.local_info
             @@ <<"selected_attractions">> :> s.selected_attractions
             @@ <<"selected_cuisines">> :> s.selected_cuisines
             @@ <<"itinerary">> :> s.itinerary
             @@ <<"safety">> :> s.safety
             @@ <<"packing">> :> s.packing
             @@ <<"budget">> :> s.budget
             @@ <<"transport">> :> s.transport
             @@ <<"accommodation">> :> s.accommodation
             @@ <<"reviews">> :> s.reviews))

Init ==
    /\ ss = Defaults
    /\ picks = {}
    /\ calls = <<>>
    /\ exception = "none"
    /\ written = {}
    /\ nBacks = 0
    /\ event = "none"
    /\ kickoff = "none"
    /\ fn = "none"
    /\ arg = None
    /\ res = Pending
    /\ prev = Pending
    /\ crew = None
    /\ weather = <<>>

\* "Get Suggestions" of stage 0
GetSuggestions ==
    /\ ss.step = 0
    /\ \E form \in FormInputs, result \in CrewResults(CityReplies) :
       \E prefs \in {TripcrewInit(form)} :
       \E wx \in Lookups(prefs) :
       \E output \in {Run(prefs, result, wx)} :
       \E enriched \in {IF output.exc = "none" THEN Enrich(output.val)
                         ELSE Raise(output.exc)} :
              /\ calls' = output.calls
              /\ event' = "get_suggestions"
              /\ kickoff' = result.kind
              /\ exception' = enriched.exc
              /\ IF output.exc # "none"
                 THEN /\ ss' = [ss EXCEPT !.preferences = prefs]
                      /\ UNCHANGED written
                 ELSE IF enriched.exc # "none"
                 THEN /\ ss' = [ss EXCEPT !.preferences = prefs,
                                          !.suggestions_raw = output.val]
                      /\ UNCHANGED written
                 ELSE /\ ss' = [ss EXCEPT !.preferences = prefs,
                                          !.suggestions_raw = output.val,
                                          !.suggestions = enriched.val,
                                          !.step = 1]
                      /\ written' = written \cup {"suggestions"}
    /\ UNCHANGED <<picks, nBacks, harnessVars>>

\* A radio of stage 1 is switched; the rerun assigns selected_place from the
\* last radio that shows "Yes".
PickDestination ==
    /\ ss.step = 1
    /\ Truthy(ss.suggestions)
    /\ \E i \in 1..Len(ss.suggestions.v) :
          LET shown == IF i \in picks THEN picks \ {i} ELSE picks \cup {i}
              chosen == IF shown = {} THEN ss.selected_place
                        ELSE Get(ss.suggestions.v[MaxOf(shown)], "place", None)
          IN  /\ picks' = shown
              /\ ss' = [ss EXCEPT !.selected_place = chosen]
    /\ event' = "pick"
    /\ kickoff' = "none"
    /\ calls' = <<>>
    /\ exception' = "none"
    /\ UNCHANGED <<written, nBacks, harnessVars>>

\* The Continue button of stage 1 is rendered only below a non-empty
\* suggestion list and is disabled without a selected place.
\* A faulty guard: Continue is enabled without a selected place.
CanContinue1AnyPlace == Truthy(ss.suggestions)

CanContinue1 == Truthy(ss.suggestions) /\ Truthy(ss.selected_place)

\* "Continue" of stage 1
ContinueToLocalInsights ==
    /\ ss.step = 1
    /\ CanContinue1
    /\ \E result \in CrewResults(LocalReplies) :
       \E prefs \in {TripcrewInit(ss.preferences)} :
       \E raw \in {RunLocalExpert(result)} :
       \E info \in {IF raw.exc = "none" THEN FormatLocalExpertise(raw.val)
                     ELSE Raise(raw.exc)} :
              /\ calls' = raw.calls
              /\ event' = "continue"
              /\ kickoff' = IF raw.calls = <<>> THEN "none" ELSE result.kind
              /\ exception' = info.exc
              /\ IF info.exc # "none"
                 THEN /\ ss' = [ss EXCEPT !.preferences = prefs]
                      /\ UNCHANGED <<written, picks>>
                 ELSE /\ ss' = [ss EXCEPT !.preferences = prefs,
                                          !.local_info = info.val,
                                          !.step = Land(2, ss.selected_place)]
                      /\ written' = written \cup {"local_info"}
                      /\ picks' = {}
    /\ UNCHANGED <<nBacks, harnessVars>>

\* The names a list of stage 2 offers as checkboxes.
Offered(listKey, nameKey) ==
    LET data == PyOr(ss.local_info, EmptyDict)
        items == Get(data, listKey, None)
    IN  IF Truthy(items) THEN {Get(items.v[i], nameKey, None) : i \in 1..Len(items.v)} ELSE {}

\* A checkbox flips: checked appends the name, unchecked removes it.
Flip(selected, name) ==
    IF In(name, selected) THEN Remove(selected, name) ELSE List(Append(selected.v, name))

\* A checkbox of "Top Attractions" is clicked.
ToggleAttraction ==
    /\ ss.step = 2
    /\ \E name \in Offered("top_attractions", "name") :
          ss' = [ss EXCEPT !.selected_attractions = Flip(@, name)]
    /\ event' = "toggle"
    /\ kickoff' = "none"
    /\ calls' = <<>>
    /\ exception' = "none"
    /\ UNCHANGED <<picks, written, nBacks, harnessVars>>

\* A checkbox of "Local Cuisines" is clicked.
ToggleCuisine ==
    /\ ss.step = 2
    /\ \E name \in Offered("local_cuisine", "dish") :
          ss' = [ss EXCEPT !.selected_cuisines = Flip(@, name)]
    /\ event' = "toggle"
    /\ kickoff' = "none"
    /\ calls' = <<>>
    /\ exception' = "none"
    /\ UNCHANGED <<picks, written, nBacks, harnessVars>>

\* A faulty can_continue: the button is never disabled.
CanContinue2Always == TRUE

\* can_continue of stage 2
CanContinue2 == Truthy(PyOr(ss.selected_attractions, ss.selected_cuisines))

\* "Continue to Itinerary" of stage 2
ContinueToItinerary ==
    /\ ss.step = 2
    /\ CanContinue2
    /\ \E result \in CrewResults(ScheduleReplies) :
       \E prefs \in {TripcrewInit(ss.preferences)} :
       \E raw \in {RunScheduleTrip(ss.selected_attractions, ss.selected_cuisines, result)} :
       \E plan \in {IF raw.exc = "none" THEN FormatTripSchedule(raw.val)
                     ELSE Raise(raw.exc)} :
              /\ calls' = raw.calls
              /\ event' = "continue"
              /\ kickoff' = IF raw.calls = <<>> THEN "none" ELSE result.kind
              /\ exception' = plan.exc
              /\ IF plan.exc # "none"
                 THEN /\ ss' = [ss EXCEPT !.preferences = prefs]
                      /\ UNCHANGED written
                 ELSE /\ ss' = [ss EXCEPT !.preferences = prefs,
                                          !.itinerary = plan.val,
                                          !.step = 3]
                      /\ written' = written \cup {"itinerary"}
    /\ UNCHANGED <<picks, nBacks, harnessVars>>

\* The "Continue" handlers of stages 3 to 8 differ in the method they call,
\* the formatter and the key they assign.
StageMethod(k) ==
    CASE k = 3 -> "run_safety_info"
      [] k = 4 -> "run_packing_list"
      [] k = 5 -> "run_budget_breakdown"
      [] k = 6 -> "run_transport_options"
      [] k = 7 -> "run_accommodation_suggestions"
      [] k = 8 -> "run_reviews_and_ratings"

StageFormat(k, raw) ==
    CASE k = 3 -> FormatSafetyInfo(raw)
      [] k = 4 -> FormatPackingList(raw)
      [] k = 5 -> FormatBudgetBreakdown(raw)
      [] k = 6 -> FormatTransportOptions(raw)
      [] k = 7 -> FormatAccommodationSuggestions(raw)
      [] k = 8 -> FormatReviews(raw)

StageKey(k) ==
    CASE k = 3 -> "safety"
      [] k = 4 -> "packing"
      [] k = 5 -> "budget"
      [] k = 6 -> "transport"
      [] k = 7 -> "accommodation"
      [] k = 8 -> "reviews"

StageReplies(k) ==
    CASE k = 3 -> {StageReply("overall_risk_level")}
      [] k = 4 -> {StageReply("essentials")}
      [] k = 5 -> {StageReply("notes")}
      [] k = 6 -> {StageReply("intercity")}
      [] k = 7 -> {StageReply("stays")}
      [] k = 8 -> {StageReply("attractions")}

\* A faulty handler: it enters the stage after the next without storing.
StoredSkipping(s, k, value) == [s EXCEPT !.step = k + 2]

\* ss with the artifact of stage k + 1 assigned and the stage entered
Stored(s, k, value) ==
    CASE k = 3 -> [s EXCEPT !.safety = value, !.step = 4]
      [] k = 4 -> [s EXCEPT !.packing = value, !.step = 5]
      [] k = 5 -> [s EXCEPT !.budget = value, !.step = 6]
      [] k = 6 -> [s EXCEPT !.transport = value, !.step = 7]
      [] k = 7 -> [s EXCEPT !.accommodation = value, !.step = 8]
      [] k = 8 -> [s EXCEPT !.reviews = value, !.step = 9]

ContinueStage(k) ==
    /\ ss.step = k
    /\ \E result \in CrewResults(StageReplies(k)) :
       \E prefs \in {TripcrewInit(ss.preferences)} :
       \E raw \in {RunStage(StageMethod(k), result)} :
       \E art \in {IF raw.exc = "none" THEN StageFormat(k, raw.val)
                    ELSE Raise(raw.exc)} :
              /\ calls' = raw.calls
              /\ event' = "continue"
              /\ kickoff' = IF raw.calls = <<>> THEN "none" ELSE result.kind
              /\ exception' = art.exc
              /\ IF art.exc # "none"
                 THEN /\ ss' = [ss EXCEPT !.preferences = prefs]
                      /\ UNCHANGED written
                 ELSE /\ ss' = Stored([ss EXCEPT !.preferences = prefs], k, art.val)
                      /\ written' = written \cup {StageKey(k)}
    /\ UNCHANGED <<picks, nBacks, harnessVars>>

ContinueToSafety == ContinueStage(3)
ContinueToPacking == ContinueStage(4)
ContinueToBudget == ContinueStage(5)
ContinueToTransport == ContinueStage(6)
ContinueToAccommodation == ContinueStage(7)
ContinueToReviews == ContinueStage(8)

\* "Continue" of stage 9; the rerun renders stage 10, which assigns final_export.
ContinueToFinal ==
    /\ ss.step = 9
    /\ ss' = [ss EXCEPT !.step = 10, !.final_export = FinalPayload(ss)]
    /\ event' = "continue"
    /\ kickoff' = "none"
    /\ calls' = <<>>
    /\ exception' = "none"
    /\ UNCHANGED <<picks, written, nBacks, harnessVars>>

\* The "Back to ..." button at the foot of stages 2 to 9
PageBack ==
    /\ ss.step \in 2..9
    /\ nBacks < MaxBacks
    /\ ss' = [ss EXCEPT !.step = Land(ss.step - 1, ss.selected_place)]
    /\ picks' = {}
    /\ event' = "page_back"
    /\ kickoff' = "none"
    /\ calls' = <<>>
    /\ exception' = "none"
    /\ nBacks' = nBacks + 1
    /\ UNCHANGED <<written, harnessVars>>

\* A faulty "Back": it also drops the itinerary.
SidebarBackClearing ==
    /\ ss.step > 0
    /\ nBacks < MaxBacks
    /\ ss' = [ss EXCEPT !.step = ss.step - 1, !.itinerary = None]
    /\ picks' = {}
    /\ event' = "back"
    /\ kickoff' = "none"
    /\ calls' = <<>>
    /\ exception' = "none"
    /\ nBacks' = nBacks + 1
    /\ UNCHANGED <<written, harnessVars>>

\* "Back" of the sidebar
SidebarBack ==
    /\ ss.step > 0
    /\ nBacks < MaxBacks
    /\ ss' = [ss EXCEPT !.step = Land(IF ss.step - 1 > 0 THEN ss.step - 1 ELSE 0,
                                      ss.selected_place)]
    /\ picks' = {}
    /\ event' = "back"
    /\ kickoff' = "none"
    /\ calls' = <<>>
    /\ exception' = "none"
    /\ nBacks' = nBacks + 1
    /\ UNCHANGED <<written, harnessVars>>

\* A faulty reset: the preferences survive it.
ClearedKeepingPreferences(button) ==
    /\ event' = button
    /\ kickoff' = "none"
    /\ ss' = [Defaults EXCEPT !.preferences = ss.preferences]
    /\ picks' = {}
    /\ calls' = <<>>
    /\ exception' = "none"
    /\ written' = {}
    /\ nBacks' = 0
    /\ UNCHANGED harnessVars

\* Every key of st.session_state is deleted and _init_state runs again.
Cleared(button) ==
    /\ event' = button
    /\ kickoff' = "none"
    /\ ss' = Defaults
    /\ picks' = {}
    /\ calls' = <<>>
    /\ exception' = "none"
    /\ written' = {}
    /\ nBacks' = 0
    /\ UNCHANGED harnessVars

\* "Reset" of the sidebar
SidebarReset == Cleared("reset")

\* "Finish & Start Over" of stage 10
FinishStartOver == ss.step = 10 /\ Cleared("finish")

Next ==
    \/ GetSuggestions
    \/ PickDestination
    \/ ContinueToLocalInsights
    \/ ToggleAttraction
    \/ ToggleCuisine
    \/ ContinueToItinerary
    \/ ContinueToSafety
    \/ ContinueToPacking
    \/ ContinueToBudget
    \/ ContinueToTransport
    \/ ContinueToAccommodation
    \/ ContinueToReviews
    \/ ContinueToFinal
    \/ PageBack
    \/ SidebarBack
    \/ SidebarReset
    \/ FinishStartOver

Spec == Init /\ [][Next]_vars

----------------------------------------------------------------------------
(* The formatters on their own: one formatter, one argument, one call *)

InitNorm ==
    /\ ss = Defaults
    /\ picks = {}
    /\ calls = <<>>
    /\ exception = "none"
    /\ written = {}
    /\ nBacks = 0
    /\ event = "none"
    /\ kickoff = "none"
    /\ fn \in Formatters
    /\ arg \in FormatterInputs
    /\ res = Pending
    /\ prev = Pending
    /\ crew = None
    /\ weather = <<>>

Normalize ==
    /\ res = Pending
    /\ res' = ApplyFormatter(fn, arg)
    /\ UNCHANGED <<fn, arg, prev, crew, weather, wizardVars>>

NextNorm == Normalize

SpecNorm == InitNorm /\ [][NextNorm]_vars

----------------------------------------------------------------------------
(* The two extractors on their own: one payload, extracted, then the result
   extracted again *)

Extractors == {"_parse_json_blocks", "_extract_json_in_backticks"}

ApplyExtractor(name, x) ==
    IF name = "_parse_json_blocks" THEN ParseJsonBlocks(x)
    ELSE Ok(ExtractJsonInBackticks(x))

ExtractorInputs ==
    FormatterInputs \cup
    { Str(<<"FENCEJSON", " ", "[", "1", "]", " ", "FENCE">>),
      Str(Obj(<<Member("a", <<"1">>)>>) \o <<" ", "and", " ">> \o Obj(<<Member("b", <<"2">>)>>)),
      Str(Nested(RecursionLimit)),
      Str(Obj(<<Member("k", <<Q, "FENCEjson", " ", "{", "x", "}", " ", "FENCE", Q>>)>>)),
      Str(Fenced(<<"[", "1", "]">>) \o <<" ", "and", " ">> \o Obj(<<Member("a", <<"2">>)>>)) }

InitExtract ==
    /\ ss = Defaults
    /\ picks = {}
    /\ calls = <<>>
    /\ exception = "none"
    /\ written = {}
    /\ nBacks = 0
    /\ event = "none"
    /\ kickoff = "none"
    /\ fn \in Extractors
    /\ arg \in ExtractorInputs
    /\ res = Pending
    /\ prev = Pending
    /\ crew = None
    /\ weather = <<>>

Extract ==
    /\ res = Pending
    /\ res' = ApplyExtractor(fn, arg)
    /\ UNCHANGED <<fn, arg, prev, crew, weather, wizardVars>>

\* extract(extract(x)): an exception of the inner call leaves the outer one too.
ExtractAgain ==
    /\ res # Pending
    /\ prev = Pending
    /\ prev' = res
    /\ res' = IF res.exc = "none" THEN ApplyExtractor(fn, res.val) ELSE res
    /\ UNCHANGED <<fn, arg, crew, weather, wizardVars>>

NextExtract == Extract \/ ExtractAgain

SpecExtract == InitExtract /\ [][NextExtract]_vars

----------------------------------------------------------------------------
(* Tripcrew on its own: constructed from the preferences a caller hands it,
   then one of its methods called *)

Categories == {"transport", "accommodation", "food", "entertainment"}

\* BudgetRange.dict(): the four categories, null where none was given.
BudgetRange(given) ==
    Dict([k \in {<<c>> : c \in Categories} |->
            IF k[1] \in given THEN Tuple(1000, 2000) ELSE None])

RangeChoices ==
    {None} \cup {BudgetRange(given) :
                    given \in {{}, {"food"}, {"transport", "accommodation", "food"},
                               Categories}}

Totals == {None, Num(0), Num(180), Num(60000)}

StartDates == {None, W("soon")} \cup {W(d) : d \in DOMAIN DayNumber}

Styles == {None, W("holiday_based"), W("season_based")}

\* Preferences.dict()
CrewPrefs(total, ranges, date, style) ==
    Dict(   <<"travel_type">> :> W("Leisure")
         @@ <<"total_budget">> :> total
         @@ <<"budget_range">> :> ranges
         @@ <<"no_of_people">> :> Num(2)
         @@ <<"group_type">> :> W("couple")
         @@ <<"duration">> :> Num(5)
         @@ <<"interests">> :> W("mountains")
         @@ <<"start_date">> :> date
         @@ <<"planning_style">> :> style)

CrewInputs ==
    {CrewPrefs(total, ranges, date, style) :
        total \in Totals, ranges \in RangeChoices, date \in StartDates, style \in Styles}

\* The replies to the city-selection task: those of the wizard, and a list
\* whose second candidate has no name.
CrewCityReplies ==
    CityReplies \cup
    { Str(Arr(<<PlaceObj("Hampi"), Obj(<<Member("place", <<"null">>)>>)>>)) }

\* The stage methods other than run.
OtherMethods ==
    {"run_local_expert", "run_schedule_trip", "run_safety_info", "run_packing_list",
     "run_budget_breakdown", "run_transport_options", "run_accommodation_suggestions",
     "run_reviews_and_ratings"}

StageCall(name, result) ==
    CASE name = "run_local_expert" -> RunLocalExpert(result)
      [] name = "run_schedule_trip" -> RunScheduleTrip(List(<<W("Fort")>>), EmptyList, result)
      [] OTHER -> RunStage(name, result)

InitCrew ==
    /\ ss = Defaults
    /\ picks = {}
    /\ calls = <<>>
    /\ exception = "none"
    /\ written = {}
    /\ nBacks = 0
    /\ event = "none"
    /\ kickoff = "none"
    /\ fn = "none"
    /\ arg \in CrewInputs
    /\ res = Pending
    /\ prev = Pending
    /\ crew = None
    /\ weather = <<>>

\* planner = Tripcrew(arg)
Construct ==
    /\ crew = None
    /\ crew' = TripcrewInit(arg)
    /\ fn' = "__init__"
    /\ UNCHANGED <<arg, res, prev, weather, wizardVars>>

\* planner.should_show_weather()
CheckGate ==
    /\ crew # None
    /\ res = Pending
    /\ res' = Ok(Bool(ShouldShowWeather(crew)))
    /\ fn' = "should_show_weather"
    /\ UNCHANGED <<arg, prev, crew, weather, wizardVars>>

\* planner.run()
CallRun ==
    /\ crew # None
    /\ res = Pending
    /\ \E result \in CrewResults(CrewCityReplies), wx \in Lookups(crew) :
       \E out \in {Run(crew, result, wx)} :
            /\ res' = [exc |-> out.exc, val |-> out.val]
            /\ calls' = out.calls
            /\ weather' = wx
    /\ fn' = "run"
    /\ UNCHANGED <<arg, prev, crew, ss, picks, exception, written, nBacks, event, kickoff>>

\* planner.run_local_expert(...) .. planner.run_reviews_and_ratings(...)
CallStage ==
    /\ crew # None
    /\ res = Pending
    /\ \E name \in OtherMethods, result \in CrewResults({Str(Obj(<<>>))}) :
       \E out \in {StageCall(name, result)} :
            /\ res' = [exc |-> out.exc, val |-> out.val]
            /\ calls' = out.calls
            /\ fn' = name
    /\ UNCHANGED <<arg, prev, crew, weather, ss, picks, exception, written, nBacks,
                   event, kickoff>>

\* The selection lists a ScheduleRequest body can carry (List[str], no
\* validator on their length).
RequestLists(name) == {EmptyList, List(<<W(name)>>)}

\* POST /schedule-trip with preferences arg: schedule(data). The request's
\* selected_place, selected_attractions and selected_cuisines are kept in ss
\* under their names.
Schedule ==
    /\ crew = None
    /\ res = Pending
    /\ \E attractions \in RequestLists("Fort"), cuisines \in RequestLists("Dosa"),
          result \in CrewResults(ScheduleReplies) :
       \E raw \in {RunScheduleTrip(attractions, cuisines, result)} :
       \E formatted \in {IF raw.exc = "none" THEN FormatTripSchedule(raw.val)
                          ELSE Raise(raw.exc)} :
            /\ ss' = [ss EXCEPT !.selected_place = W("Hampi"),
                                !.selected_attractions = attractions,
                                !.selected_cuisines = cuisines]
            /\ crew' = TripcrewInit(arg)
            /\ calls' = raw.calls
            /\ res' = IF formatted.exc # "none" THEN Raise(formatted.exc)
                      ELSE Ok(Dict((<<"raw">> :> raw.val)
                                   @@ (<<"formatted">> :> formatted.val)))
    /\ fn' = "schedule"
    /\ UNCHANGED <<arg, prev, weather, picks, exception, written, nBacks, event, kickoff>>

\* POST /generate with preferences arg: generate_trip(preferences).
GenerateTrip ==
    /\ crew = None
    /\ res = Pending
    /\ \E inputs \in {TripcrewInit(arg)} :
       \E result \in CrewResults(CrewCityReplies), wx \in Lookups(inputs) :
       \E out \in {Run(inputs, result, wx)} :
       \E formatted \in {IF out.exc = "none" THEN FormatCitySuggestions(out.val)
                          ELSE Raise(out.exc)} :
            /\ crew' = inputs
            /\ calls' = out.calls
            /\ weather' = wx
            /\ res' = IF formatted.exc # "none" THEN Raise(formatted.exc)
                      ELSE Ok(Dict((<<"raw">> :> out.val)
                                   @@ (<<"places">> :> formatted.val)))
    /\ fn' = "generate_trip"
    /\ UNCHANGED <<arg, prev, ss, picks, exception, written, nBacks, event, kickoff>>

NextCrew == Construct \/ CheckGate \/ CallRun \/ CallStage \/ Schedule \/ GenerateTrip

SpecCrew == InitCrew /\ [][NextCrew]_vars

----------------------------------------------------------------------------
(* Properties of the wizard *)

\* The artifact key the forward transition into stage k assigns; stage 10
\* assigns the export.
SlotOf(k) ==
    CASE k = 1 -> "suggestions"
      [] k = 2 -> "local_info"
      [] k = 3 -> "itinerary"
      [] k = 4 -> "safety"
      [] k = 5 -> "packing"
      [] k = 6 -> "budget"
      [] k = 7 -> "transport"
      [] k = 8 -> "accommodation"
      [] k = 9 -> "reviews"
      [] k = 10 -> "final_export"

ArtifactSlots == {SlotOf(k) : k \in 1..9}

\* A script run that handled "Get Suggestions" or a "Continue" button.
ForwardPressed == event' \in {"get_suggestions", "continue"}

\* Some "Continue" button of stages 1 to 9 can be pressed.
Forward ==
    \/ ContinueToLocalInsights
    \/ ContinueToItinerary
    \/ ContinueToSafety
    \/ ContinueToPacking
    \/ ContinueToBudget
    \/ ContinueToTransport
    \/ ContinueToAccommodation
    \/ ContinueToReviews
    \/ ContinueToFinal

BothEmpty == ss.selected_attractions = EmptyList /\ ss.selected_cuisines = EmptyList
ExactlyOneEmpty ==
    (ss.selected_attractions = EmptyList) # (ss.selected_cuisines = EmptyList)

\* C1, as the claim states it: at stage 2 no forward press happens while both
\* selection lists are empty, and every forward press made while exactly one
\* of them is non-empty stores the itinerary and enters stage 3.
C1_ForwardFromLocalInsights ==
    [][ /\ (ss.step = 2 /\ BothEmpty) => ~ForwardPressed
        /\ (ss.step = 2 /\ ExactlyOneEmpty /\ ForwardPressed) =>
              /\ ss'.step = 3
              /\ ss'.itinerary # None
              /\ "itinerary" \in written' ]_vars

\* The guard of stage 2 alone: with both selection lists empty, no step taken
\* at stage 2 is a forward press, raises the index, stores an itinerary or
\* issues a call.
BlockedWhenBothEmpty ==
    [][ (ss.step = 2 /\ BothEmpty) =>
            /\ ~ForwardPressed
            /\ ss'.step <= 2
            /\ ss'.itinerary \in {ss.itinerary, None}
            /\ calls' = <<>> ]_vars

\* The forward press of stage 2 whenever crew.kickoff() returns: with a
\* non-empty selection list it stores an itinerary and enters stage 3.
StoredWhenBackendReturns ==
    [][ (ss.step = 2 /\ ~BothEmpty /\ ForwardPressed /\ kickoff' # "raises") =>
            /\ ss'.step = 3
            /\ ss'.itinerary # None
            /\ "itinerary" \in written' ]_vars

\* C2: the index grows only by a forward press and by exactly one, and at
\* index k the artifact of every stage 1..k (for k up to 9) has been assigned
\* by a forward press since the last reset.
C2_NoStageSkipped ==
    /\ [](\A j \in 1..9 : j <= ss.step =>
            /\ SlotOf(j) \in written
            /\ IF j = 1 THEN ss.suggestions_raw # None ELSE ss[SlotOf(j)] # None)
    /\ [][ss'.step > ss.step => ss'.step = ss.step + 1 /\ ForwardPressed]_vars

\* C2's case: stage 9 entered again after a Back.
C2_Witness == ss.step = 9 /\ nBacks > 0 /\ event = "continue"

\* C3, as the claim states it: when crew.kickoff() raises during a forward
\* press, the press still completes: no exception ends the script run, the
\* index is one higher and the stage's artifact has been assigned.
C3_FailedCallStillCompletes ==
    [][kickoff' = "raises" =>
          /\ exception' = "none"
          /\ ss'.step = ss.step + 1
          /\ SlotOf(ss'.step) \in written' ]_vars

C5_ForwardWritesOneSlot ==
    [][ForwardPressed =>
          /\ ss'.step = ss.step + 1
          /\ ss.step < 9 => SlotOf(ss.step + 1) \in written'
          /\ \A k \in (ArtifactSlots \cup {"final_export"}) \ {SlotOf(ss.step + 1)} :
                ss'[k] = ss[k]
          /\ ss'.selected_attractions = ss.selected_attractions
          /\ ss'.selected_cuisines = ss.selected_cuisines ]_vars

\* The forward presses whose script run ends without an exception: each
\* raises the index by one, assigns the artifact of the stage it enters and
\* leaves every other artifact, the export and the selection lists alone.
CompletedForwardWritesOneSlot ==
    [][(ForwardPressed /\ exception' = "none") =>
          /\ ss'.step = ss.step + 1
          /\ ss.step < 9 => SlotOf(ss.step + 1) \in written'
          /\ \A k \in (ArtifactSlots \cup {"final_export"}) \ {SlotOf(ss.step + 1)} :
                ss'[k] = ss[k]
          /\ ss'.selected_attractions = ss.selected_attractions
          /\ ss'.selected_cuisines = ss.selected_cuisines ]_vars

\* C6: a Back press happens only above index 0, lowers the index by exactly
\* one and changes nothing else of st.session_state; at index 0 no Back
\* button can be pressed and the index is never negative.
C6_BackOnlyMovesIndex ==
    /\ [](ss.step >= 0)
    /\ [](ss.step = 0 => ~ENABLED SidebarBack /\ ~ENABLED PageBack)
    /\ [][event' \in {"back", "page_back"} =>
            /\ ss.step > 0
            /\ ss' = [ss EXCEPT !.step = ss.step - 1] ]_vars

\* C6's case: Back pressed at stage 3 or later, the artifacts still in place.
C6_Witness ==
    /\ event \in {"back", "page_back"}
    /\ ss.step >= 2
    /\ ss.itinerary # None
    /\ ss.selected_place # None

\* C7: "Reset" and "Finish & Start Over" leave exactly the state the wizard
\* starts in: index 0, no preferences, no selected place, every artifact and
\* the export empty, both selection lists empty, no radio set.
C7_ResetRestoresInitialState ==
    [][event' \in {"reset", "finish"} =>
          /\ ss'.step = 0
          /\ ss'.preferences = None
          /\ ss'.selected_place = None
          /\ ss'.suggestions = EmptyList
          /\ ss'.suggestions_raw = None
          /\ \A k \in ArtifactSlots \ {"suggestions"} : ss'[k] = None
          /\ ss'.final_export = None
          /\ ss'.selected_attractions = EmptyList
          /\ ss'.selected_cuisines = EmptyList
          /\ picks' = {}
          /\ ss' = Defaults ]_vars

\* C7's case: the reset of a finished session.
C7_Witness == event = "finish" /\ ss.step = 0

ExportedKeys ==
    {"preferences", "selected_place", "suggestions", "local_info",
     "selected_attractions", "selected_cuisines", "itinerary", "safety",
     "packing", "budget", "transport", "accommodation", "reviews"}

\* C8: every script run that enters, shows or leaves stage 10 issues no
\* external call, and at stage 10 the export record holds each of the
\* thirteen keys with the value st.session_state holds for it.
C8_ExportWithoutCalls ==
    /\ [](ss.step = 10 =>
            /\ ss.final_export.t = "dict"
            /\ DOMAIN ss.final_export.v = {<<"tripPlan">>}
            /\ DOMAIN ss.final_export.v[<<"tripPlan">>].v = {<<k>> : k \in ExportedKeys}
            /\ \A k \in ExportedKeys : ss.final_export.v[<<"tripPlan">>].v[<<k>>] = ss[k])
    /\ [][(ss.step = 10 \/ ss'.step = 10) => calls' = <<>> /\ kickoff' = "none"]_vars

\* C8's case: the export stage with the reviews in place.
C8_Witness == ss.step = 10 /\ ss.reviews # None /\ event = "continue"

----------------------------------------------------------------------------
(* Properties of the formatters *)

\* Every documented key is present: in the dict, or in each dict of the list.
HasDocumentedKeys(name, x) ==
    CASE x.t = "dict" -> \A k \in DocumentedKeys(name) : <<k>> \in DOMAIN x.v
      [] x.t = "list" ->
            \A i \in 1..Len(x.v) :
                /\ x.v[i].t = "dict"
                /\ \A k \in DocumentedKeys(name) : <<k>> \in DOMAIN x.v[i].v
      [] OTHER -> FALSE

\* C9, as the claim states it: for {}, [], None and a text without JSON every
\* formatter returns a value that holds every documented key of its schema.
C9_DocumentedKeysOnDegenerateInput ==
    (res # Pending /\ arg \in DegenerateInputs) =>
        /\ res.exc = "none"
        /\ HasDocumentedKeys(fn, res.val)

\* C10, as the claim states it: no formatter raises, whatever its argument.
C10_NormalizersNeverRaise == res.exc \in {"pending", "none"}

\* The elements of a list that are objects, in their order.
WellFormed(items) == SelectSeq(items, LAMBDA item : item.t = "dict")

\* C11, as the claim states it: of a list of destinations,
\* format_city_suggestions returns the normalized form of every element that
\* is an object, in the original order, and drops the other elements.
C11_MalformedElementsDropped ==
    (fn = "format_city_suggestions" /\ arg.t = "list" /\ res # Pending) =>
        /\ res.exc = "none"
        /\ res.val = List([i \in 1..Len(WellFormed(arg.v)) |->
                              FormatPlace(WellFormed(arg.v)[i])])

\* The text holds no span that parses: neither group 1 of the labeled pattern
\* nor group 1 of the bare pattern is one JSON value.
NoSpanParses(text) ==
    /\ LabeledSearch(text.v, TRUE) = <<>> \/ Loads(Str(LabeledSearch(text.v, TRUE))).exc # "none"
    /\ BareSearch(text.v) = <<>> \/ Loads(Str(BareSearch(text.v))).exc # "none"

\* C12, as the claim states it: on a text payload an extractor raises nothing,
\* and it returns none when no span of the text parses.
C12_ExtractorNeverRaises ==
    (arg.t = "str" /\ res # Pending /\ prev = Pending) =>
        /\ res.exc = "none"
        /\ NoSpanParses(arg) => res.val = None

\* The other part of C12: no formatter lets an exception of the parse
\* (json.loads) reach its caller.
FormattersAbsorbParseErrors ==
    res.exc \notin {"JSONDecodeError", "RecursionError"}

\* C13: _parse_json_blocks returns a list or an object unchanged, and applied
\* to its own result it returns that result again.
C13_ExtractIdempotent ==
    fn = "_parse_json_blocks" =>
        /\ (res # Pending /\ prev = Pending /\ arg.t \in {"list", "dict"}) => res = Ok(arg)
        /\ prev # Pending => res = prev

\* C13's case: a structure recovered from text, handed to the extractor again.
C13_Witness ==
    /\ fn = "_parse_json_blocks"
    /\ arg.t = "str"
    /\ prev # Pending
    /\ prev.val.t \in {"list", "dict"}

----------------------------------------------------------------------------
(* Properties of Tripcrew *)

\* The ranges hold a value for at least one category.
HasCategory(inputs) ==
    /\ Get(inputs, "budget_range", None).t = "dict"
    /\ \E k \in DOMAIN Get(inputs, "budget_range", None).v :
            Get(inputs, "budget_range", None).v[k] # None

\* C14: where the ranges handed to the constructor hold a value for at least
\* one category, the constructed object carries those ranges as they were
\* handed in, whatever the total budget is.
C14_SuppliedRangesKept ==
    (crew # None /\ HasCategory(arg)) =>
        Get(crew, "budget_range", None) = Get(arg, "budget_range", None)

\* C14's case: ranges with one category given next to a total that could
\* have been split.
C14_Witness ==
    /\ crew # None
    /\ Get(arg, "budget_range", None) = BudgetRange({"food"})
    /\ Get(arg, "total_budget", None) = Num(60000)

\* floor(pct % of total)
FloorPct(total, pct) == (total * pct) \div 100

\* C15, as the claim states it, for the positive totals: with no category
\* range supplied, each derived bound is the floor of its percentage of the
\* total.
C15_DerivedRangesAreFloors ==
    (/\ crew # None
     /\ ~HasCategory(arg)
     /\ Get(arg, "total_budget", None).t = "num"
     /\ Get(arg, "total_budget", None).v > 0) =>
        Get(crew, "budget_range", None) =
            Dict([k \in {<<c>> : c \in Categories} |->
                CASE k = <<"transport">> ->
                        Tuple(FloorPct(Get(arg, "total_budget", None).v, 25),
                              FloorPct(Get(arg, "total_budget", None).v, 35))
                  [] k = <<"accommodation">> ->
                        Tuple(FloorPct(Get(arg, "total_budget", None).v, 35),
                              FloorPct(Get(arg, "total_budget", None).v, 45))
                  [] k = <<"food">> ->
                        Tuple(FloorPct(Get(arg, "total_budget", None).v, 15),
                              FloorPct(Get(arg, "total_budget", None).v, 25))
                  [] k = <<"entertainment">> ->
                        Tuple(FloorPct(Get(arg, "total_budget", None).v, 5),
                              FloorPct(Get(arg, "total_budget", None).v, 15))])

\* The example of C15: the total 60000 is split as the claim lists it.
SplitOf60000 ==
    (/\ crew # None
     /\ ~HasCategory(arg)
     /\ Get(arg, "total_budget", None) = Num(60000)) =>
        Get(crew, "budget_range", None) =
            Dict(   <<"transport">> :> Tuple(15000, 21000)
                 @@ <<"accommodation">> :> Tuple(21000, 27000)
                 @@ <<"food">> :> Tuple(9000, 15000)
                 @@ <<"entertainment">> :> Tuple(3000, 9000))

\* Four ranges, one per category, each with 0 <= min <= max.
FourSoundRanges(ranges) ==
    /\ ranges.t = "dict"
    /\ DOMAIN ranges.v = {<<c>> : c \in Categories}
    /\ \A k \in DOMAIN ranges.v :
            /\ ranges.v[k].t = "tuple"
            /\ 0 <= ranges.v[k].v[1].v
            /\ ranges.v[k].v[1].v <= ranges.v[k].v[2].v

\* C16, as the claim states it: for every total >= 0, 0 included, and no
\* category range supplied, the constructed object carries four ranges, each
\* with 0 <= min <= max.
C16_FourRangesForEveryTotal ==
    (/\ crew # None
     /\ ~HasCategory(arg)
     /\ Get(arg, "total_budget", None).t = "num"
     /\ Get(arg, "total_budget", None).v >= 0) =>
        FourSoundRanges(Get(crew, "budget_range", None))

\* C17, as the claim states it: the constructed object carries ranges for
\* all four categories or for none.
C17_AllFourOrNone ==
    crew # None =>
        \/ ~HasCategory(crew)
        \/ \A k \in DOMAIN Get(crew, "budget_range", None).v :
                Get(crew, "budget_range", None).v[k] # None

\* The start date is a calendar date 0 to 3 days after today.
InWindow(inputs) ==
    /\ Get(inputs, "start_date", None).t = "str"
    /\ Len(Get(inputs, "start_date", None).v) = 1
    /\ Get(inputs, "start_date", None).v[1] \in DOMAIN DayNumber
    /\ DayNumber[Get(inputs, "start_date", None).v[1]] - Today \in 0..3

\* C18: should_show_weather returns true exactly when the start date is a
\* calendar date 0 to 3 days after today and the planning style is
\* holiday_based; so false without a date or a style, for a text that is no
\* date, for season_based on any date, and outside the window.
C18_GateExact ==
    (fn = "should_show_weather" /\ res # Pending) =>
        res = Ok(Bool(/\ InWindow(crew)
                      /\ Get(crew, "planning_style", None) = W("holiday_based")))

\* C18's case: holiday_based, two days ahead, and the gate said yes.
C18_Witness ==
    /\ fn = "should_show_weather"
    /\ Get(crew, "start_date", None) = W("2026-11-03")
    /\ res = Ok(Bool(TRUE))

\* The examples of C18: today + 2 gives true; today + 10 and today - 1 false.
GateExamples ==
    (/\ fn = "should_show_weather"
     /\ res # Pending
     /\ Get(crew, "planning_style", None) = W("holiday_based")) =>
        /\ Get(crew, "start_date", None) = W("2026-11-03") => res.val = Bool(TRUE)
        /\ Get(crew, "start_date", None) \in {W("2026-11-11"), W("2026-10-31")} =>
                res.val = Bool(FALSE)

LookupsMade == Len(SelectSeq(calls, LAMBDA c : c = "get_current_weather"))

\* The candidates of a normalized list that have a name.
\* The steps that call Tripcrew.run, and the list run returned in them.
RunCallers == {"run", "generate_trip"}

RunOutput == IF fn = "generate_trip" THEN Get(res.val, "raw", None) ELSE res.val

Named(places) == SelectSeq(places.v, LAMBDA place : Truthy(Get(place, "place", None)))

C20_FailedLookupLeavesNoEntry ==
    (fn = "run" /\ ShouldShowWeather(crew) /\ res.val.t = "list") =>
        /\ res.exc = "none"
        /\ \A i \in 1..Len(res.val.v) :
                (Truthy(Get(res.val.v[i], "place", None)) /\ weather[i] = None) =>
                    <<"weather">> \notin DOMAIN res.val.v[i].v

\* C21, as the claim states it: where the labeled pattern matches, the result
\* is the parse of its span (none if the span does not parse) and the bare
\* pattern has no say; for the text of the example the result is the list
\* with the one place Hampi.
C21_FirstMatchWins ==
    (/\ fn = "_parse_json_blocks"
     /\ arg.t = "str"
     /\ res.exc = "none"
     /\ prev = Pending
     /\ LabeledSearch(arg.v, FALSE) # <<>>) =>
        res.val = IF Loads(Str(LabeledSearch(arg.v, FALSE))).exc = "none"
                  THEN Loads(Str(LabeledSearch(arg.v, FALSE))).val
                  ELSE None

\* The example of C21.
HampiExample ==
    (fn = "_parse_json_blocks" /\ arg = Str(Fenced(HampiList)) /\ res # Pending) =>
        res = Ok(List(<<Dict(<<"place">> :> W("Hampi"))>>))

\* C22, as the claim states it, for the texts on which the formatter returns:
\* a formatter given the JSON text of a list or an object returns what it
\* returns for that list or object itself.
C22_StructuredEqualsText ==
    (/\ fn \in Formatters
     /\ res.exc = "none"
     /\ arg.t = "str"
     /\ Loads(arg).exc = "none"
     /\ Loads(arg).val.t \in {"list", "dict"}) =>
        res = ApplyFormatter(fn, Loads(arg).val)

\* C23, as the claim states it: what a stage method returns is text, the
\* reply of the backend as it came, never a normalized structure.
C23_StageMethodsReturnRawText ==
    (fn \in OtherMethods \cup {"run"} /\ res.exc = "none") => res.val.t = "str"

----------------------------------------------------------------------------
(* Further properties of the wizard *)

\* The stage method the forward button of stage k calls.
MethodAt(k) ==
    CASE k = 0 -> "run"
      [] k = 1 -> "run_local_expert"
      [] k = 2 -> "run_schedule_trip"
      [] k \in 3..8 -> StageMethod(k)
      [] OTHER -> "none"

\* The calls of the generation backend among the calls of a script run.
GenerationCalls(made) == SelectSeq(made, LAMBDA c : c # "get_current_weather")

\* C24: a script run issues at most one generation call, and only the one of
\* the stage the index is at; the index rises into stages 1..9 only by one,
\* in a run that issued that one call, saw it return, raised nothing and
\* stored the normalized result in the slot of the stage entered.
C24_OneCallPerForward ==
    /\ [][ /\ Len(GenerationCalls(calls')) <= 1
           /\ GenerationCalls(calls') # <<>> =>
                GenerationCalls(calls') = <<MethodAt(ss.step)>> ]_vars
    /\ [][ (ss'.step > ss.step /\ ss'.step \in 1..9) =>
                /\ ss'.step = ss.step + 1
                /\ GenerationCalls(calls') = <<MethodAt(ss.step)>>
                /\ kickoff' \notin {"none", "raises"}
                /\ exception' = "none"
                /\ SlotOf(ss'.step) \in written'
                /\ ss'[SlotOf(ss'.step)] # None ]_vars

\* C24's case: stage 4 entered by the one call of run_safety_info.
C24_Witness ==
    /\ ss.step = 4
    /\ event = "continue"
    /\ calls = <<"run_safety_info">>

\* The names the stored local insights list under listKey, in their order.
InsightNames(listKey, nameKey) ==
    IF Truthy(Get(PyOr(ss.local_info, EmptyDict), listKey, None))
    THEN [i \in 1..Len(Get(ss.local_info, listKey, None).v) |->
            Get(Get(ss.local_info, listKey, None).v[i], nameKey, None)]
    ELSE <<>>

\* sel has no duplicates and is a subsequence of names.
OrderedSubset(sel, names) ==
    /\ \A i, j \in 1..Len(sel) : i < j => sel[i] # sel[j]
    /\ \A i \in 1..Len(sel) : \E p \in 1..Len(names) : names[p] = sel[i]
    /\ \A i, j \in 1..Len(sel) :
            i < j => \E p, q \in 1..Len(names) :
                        p < q /\ names[p] = sel[i] /\ names[q] = sel[j]

\* C25, as the claim states it: in every state each selection list is a
\* duplicate-free list of names of the stored local insights, in their order.
C25_SelectionsFollowInsights ==
    /\ OrderedSubset(ss.selected_attractions.v, InsightNames("top_attractions", "name"))
    /\ OrderedSubset(ss.selected_cuisines.v, InsightNames("local_cuisine", "dish"))

\* The place names of the suggestions a state stores.
SuggestedPlaces(state) ==
    IF Truthy(state.suggestions)
    THEN {Get(state.suggestions.v[i], "place", None) : i \in 1..Len(state.suggestions.v)}
    ELSE {}

\* C26, as the claim states it: a step that issues the local-insights request
\* starts in a state whose selected place is the place of a stored suggestion.
C26_RequestedPlaceIsSuggested ==
    [][ (\E i \in 1..Len(calls') : calls'[i] = "run_local_expert") =>
            ss.selected_place \in SuggestedPlaces(ss) ]_vars

\* C27, as the claim states it: no entry point (the wizard's Continue at local
\* insights, POST /schedule-trip) issues run_schedule_trip with the attraction
\* list and the cuisine list both empty.
C27_ItineraryRequestNeverEmpty ==
    (/\ \E i \in 1..Len(calls) : calls[i] = "run_schedule_trip"
     /\ fn = "schedule" \/ event = "continue") =>
        Truthy(PyOr(ss.selected_attractions, ss.selected_cuisines))

CandidateKeys == {<<k>> : k \in DocumentedKeys("format_city_suggestions")}

OnlyCandidateKeys(places) ==
    \A i \in 1..Len(places.v) : DOMAIN places.v[i].v = CandidateKeys

C30_StageTwoHasDestination ==
    /\ [](ss.step >= 2 => Truthy(ss.selected_place))
    /\ [][ (ss.step = 1 /\ event' = "continue" /\ exception' = "none") =>
                ss'.step = 2 ]_vars
    /\ [][ (ss.step = 3 /\ event' \in {"back", "page_back"}) => ss'.step = 2 ]_vars

\* Stage 2 was entered again from stage 3.
C30_Witness ==
    /\ ss.step = 2
    /\ event \in {"back", "page_back"}
    /\ "itinerary" \in written
    /\ Truthy(ss.selected_place)

====
